---- MODULE Spec2Model ----
(***************************************************************************)
(* Model of cloud/services/compute/instance/qemu.go: the QEMU instance     *)
(* reconciler (reconcileQEMU, getQEMU, createQEMU), the option builder     *)
(* (generateVMOptions) and the storage injector (injectVMOption).          *)
(***************************************************************************)
EXTENDS Integers, Sequences, FiniteSets, TLC

(* ------------------------------ bounds -------------------------------- *)
\* longest extra-disk sequence a spec declares
MaxDisks == 7
\* VM IDs the scheduler can hand out
NumVMIDs == 2

(* ------------------------- program constants -------------------------- *)
\* `len(extraDisks) > 5` in generateVMOptions
BuilderLimit == 5
\* `extraDisks[:6]` in generateVMOptions
BuilderTrim == 6
\* last `case` of the switch in generateVMOptions
BuilderLastCase == 5
\* `len(extraDisks) > 5` in injectVMOption
InjectLimit == 5
\* last `case` of the switch in injectVMOption
InjectLastCase == 4
\* highest Scsi field of the request the code writes (Scsi6)
LastSlot == 6

(* --------------------------- value universe --------------------------- *)
\* Go nil / optional values: <<>> is nil, <<x>> is a pointer to x
None == <<>>
Some(x) == <<x>>

\* s.scope.Name() of the logical instance, and the name of another instance
Name == "vm-a"
OtherName == "vm-b"
\* s.scope.GetImage()
Image == "img"
\* s.scope.GetClusterStorage().Name
SnippetStorage == "snippets"

Procs == {1, 2}
Nodes == {"n1", "n2"}
Storages == {"images", "fast-pool"}
VMIDs == 1..NumVMIDs

\* an ExtraDisk of the hardware spec
Disk(st, sz) == [Storage |-> st, Size |-> sz]
DiskSet == {Disk("local", "10G"), Disk("fast-pool", "20G")}

RECURSIVE SeqsOfLen(_, _)
SeqsOfLen(S, n) ==
    IF n = 0 THEN {<<>>}
    ELSE {Append(q, x) : q \in SeqsOfLen(S, n - 1), x \in S}
SeqsUpTo(S, n) == UNION {SeqsOfLen(S, k) : k \in 0..n}

\* the i-th disk (1-based) of the canonical sequence: pools alternate
CanonDisk(i) == IF i % 2 = 1 THEN Disk("local", "10G") ELSE Disk("fast-pool", "20G")
CanonDisks(n) == [i \in 1..n |-> CanonDisk(i)]

(* ------------------------------- errors ------------------------------- *)
ErrNil == "<nil>"
\* rest.NotFoundErr
NotFoundErr == "not found"
LookupErr == "lookup failed"
ExistsErr == "exists check failed"
SchedErr == "scheduling failed"
ImageErr == "image staging failed"
CreateErr == "create failed"
PatchErr == "patch failed"
\* fmt.Errorf("qemu %s already exists", s.scope.Name())
DuplicateErr(name) == "qemu " \o name \o " already exists"
\* rest.IsNotFound(err)
IsNotFound(err) == err = NotFoundErr

(* ----------------------- wire-format renderings ----------------------- *)
\* helpers of the package that qemu.go calls; their results are opaque paths
rawImageFilePath(image) == "raw/" \o image
userSnippetPath(vmName) == "user/" \o vmName

\* fmt.Sprintf("%s:0,import-from=%s", storage, rawImageFilePath(image))
Scsi0Fmt(storage, image) == storage \o ":0,import-from=" \o rawImageFilePath(image)
\* fmt.Sprintf("file=%s:cloudinit,media=cdrom", storage)
Ide2Fmt(storage) == "file=" \o storage \o ":cloudinit,media=cdrom"
\* fmt.Sprintf("user=%s:%s", snippetStorageName, userSnippetPath(vmName))
CiCustomFmt(snippet, vmName) == "user=" \o snippet \o ":" \o userSnippetPath(vmName)
\* fmt.Sprintf("%s:%d,%s", disk.Storage, i+1, disk.Size), i the 0-based position
ExtraDiskFmt(disk, i) == disk.Storage \o ":" \o ToString(i + 1) \o "," \o disk.Size
\* fmt.Sprintf("order=%s", bootDvice)
bootDvice == "scsi0"
BootFmt == "order=" \o bootDvice

(* ------------------------- generateVMOptions -------------------------- *)
\* the zero value of api.VirtualMachineCreateOptions (fields the model keeps)
ZeroOptions ==
    [Name |-> "", Node |-> "", VMID |-> None, Boot |-> "", CiCustom |-> "",
     Ide2 |-> "", Storage |-> "", Scsi |-> [k \in 0..LastSlot |-> ""]]

\* a slip: the slice keeps five disks, as the source comment says
BuilderDisks_trim5(disks) ==
    IF Len(disks) > BuilderLimit THEN SubSeq(disks, 1, BuilderLimit) ELSE disks

\* a slip: the slice keeps the last six disks and not the first six
BuilderDisks_lastSix(disks) ==
    IF Len(disks) > BuilderLimit
    THEN SubSeq(disks, Len(disks) - BuilderTrim + 1, Len(disks))
    ELSE disks

\* the extra disks the builder's loop ranges over
BuilderDisks(disks) ==
    IF Len(disks) > BuilderLimit THEN SubSeq(disks, 1, BuilderTrim) ELSE disks

\* the switch inside the builder's loop: position i (0-based) writes Scsi(i+1)
\* for the cases 0..5 and nothing otherwise
BuilderScsi(imageStorageName, image, disks) ==
    LET ed == BuilderDisks(disks) IN
    [k \in 0..LastSlot |->
        IF k = 0 THEN Scsi0Fmt(imageStorageName, image)
        ELSE IF k - 1 <= BuilderLastCase /\ k <= Len(ed) THEN ExtraDiskFmt(ed[k], k - 1)
        ELSE ""]

\* sc is the identity record of the scope (vmid, node, storage)
generateVMOptions(sc, disks) ==
    [Name |-> Name,
     Node |-> sc.node,
     VMID |-> sc.vmid,
     Boot |-> BootFmt,
     CiCustom |-> CiCustomFmt(SnippetStorage, Name),
     Ide2 |-> Ide2Fmt(sc.storage),
     Storage |-> "",
     Scsi |-> BuilderScsi(sc.storage, Image, disks)]

(* --------------------------- injectVMOption --------------------------- *)
\* the injector's writes to the Scsi fields: slot 0 always; the extra-disk
\* slots only when 0 < len(extraDisks) <= 5, for the cases 0..4 of the switch;
\* every other slot keeps its value
InjectScsi(scsi, storage, image, disks) ==
    [k \in 0..LastSlot |->
        IF k = 0 THEN Scsi0Fmt(storage, image)
        ELSE IF /\ Len(disks) > 0
                /\ ~(Len(disks) > InjectLimit)
                /\ k - 1 <= InjectLastCase
                /\ k <= Len(disks)
             THEN ExtraDiskFmt(disks[k], k - 1)
        ELSE scsi[k]]

\* a slip: the extra-disk slots are keyed to the placement storage
injectVMOption_finalPool(vmOption, storage, disks) ==
    [opt |-> [vmOption EXCEPT
                !.Ide2 = Ide2Fmt(storage),
                !.Storage = storage,
                !.Scsi = InjectScsi(vmOption.Scsi, storage, Image,
                                    [i \in 1..Len(disks) |-> Disk(storage, disks[i].Size)])],
     ret |-> IF Len(disks) > 0 /\ Len(disks) > InjectLimit THEN "nil" ELSE "ptr"]

\* a slip: the root disk keeps what the builder wrote
injectVMOption_keepRoot(vmOption, storage, disks) ==
    [opt |-> [vmOption EXCEPT
                !.Ide2 = Ide2Fmt(storage),
                !.Storage = storage,
                !.Scsi = [InjectScsi(vmOption.Scsi, storage, Image, disks)
                              EXCEPT ![0] = vmOption.Scsi[0]]],
     ret |-> IF Len(disks) > 0 /\ Len(disks) > InjectLimit THEN "nil" ELSE "ptr"]

\* a slip: the root disk is derived from the storage field as it was before
\* the injector updated it
injectVMOption_staleStorage(vmOption, storage, disks) ==
    [opt |-> [vmOption EXCEPT
                !.Ide2 = Ide2Fmt(storage),
                !.Storage = storage,
                !.Scsi = [InjectScsi(vmOption.Scsi, storage, Image, disks)
                              EXCEPT ![0] = Scsi0Fmt(vmOption.Storage, Image)]],
     ret |-> IF Len(disks) > 0 /\ Len(disks) > InjectLimit THEN "nil" ELSE "ptr"]

\* a slip: the more-than-5-disks return comes before the storage writes
injectVMOption_earlyReturn(vmOption, storage, disks) ==
    IF Len(disks) > 0 /\ Len(disks) > InjectLimit
    THEN [opt |-> vmOption, ret |-> "nil"]
    ELSE [opt |-> [vmOption EXCEPT
                     !.Ide2 = Ide2Fmt(storage),
                     !.Storage = storage,
                     !.Scsi = InjectScsi(vmOption.Scsi, storage, Image, disks)],
          ret |-> "ptr"]

\* opt: the request after the in-place mutation; ret: the returned pointer
\* ("nil" on the early return of the more-than-5-disks branch)
injectVMOption(vmOption, storage, disks) ==
    [opt |-> [vmOption EXCEPT !.Ide2 = Ide2Fmt(storage),
                              !.Storage = storage,
                              !.Scsi = InjectScsi(vmOption.Scsi, storage, Image, disks)],
     ret |-> IF Len(disks) > 0 /\ Len(disks) > InjectLimit THEN "nil" ELSE "ptr"]

(* ------------------------------- state -------------------------------- *)
VARIABLES
    vms,          \* the platform's VMs: records [vmid, name, node]
    persisted,    \* the identity record as last persisted by PatchObject
    extraDisks,   \* s.scope.GetHardware().ExtraDisks of the desired spec
    scope,        \* per pass: the in-memory identity record of s.scope
    pc,           \* per pass: the position of the pass in reconcileQEMU
    qemu,         \* per pass: the local `qemu` of reconcileQEMU (optional VM)
    vmoption,     \* per pass: the local `vmoption` of createQEMU
    result,       \* per pass: the scheduler's placement result (optional)
    imageStorageName, \* per pass: the local of generateVMOptions (provisional storage)
    calls,        \* per pass: the collaborator calls made so far, in order
    ret           \* per pass: what reconcileQEMU returned: [vm, err]

vars == <<vms, persisted, extraDisks, scope, pc, qemu, vmoption, result,
          imageStorageName, calls, ret>>
locals == <<qemu, vmoption, result, imageStorageName>>

VM(vmid, name, node) == [vmid |-> vmid, name |-> name, node |-> node]
Identity(vmid, node, storage) == [vmid |-> vmid, node |-> node, storage |-> storage]
Call(op, err, val) == [op |-> op, err |-> err, val |-> val]
NoRet == [vm |-> None, err |-> "<running>"]

\* s.client.VirtualMachineExistsWithName, when it answers without error
ExistsWithName(name) == \E v \in vms : v.name = name
\* what the scheduler may return: {Node, VMID, Storage}
Placements == [node : Nodes, vmid : VMIDs, storage : Storages]

\* the state shared by Init of every specification
InitCommon ==
    /\ vms \in {{}, {VM(1, OtherName, "n1")}}
    /\ \E st \in Storages : persisted = Identity(None, "", st)
    /\ scope = [p \in Procs |-> persisted]
    /\ qemu = [p \in Procs |-> None]
    /\ vmoption = [p \in Procs |-> ZeroOptions]
    /\ result = [p \in Procs |-> None]
    /\ imageStorageName = [p \in Procs |-> ""]
    /\ calls = [p \in Procs |-> <<>>]
    /\ ret = [p \in Procs |-> NoRet]

\* the desired specs the reconciler is run on: no, two, six and MaxDisks disks
ReconcileDisks == {CanonDisks(0), CanonDisks(2), CanonDisks(BuilderTrim), CanonDisks(MaxDisks)}

Init ==
    /\ InitCommon
    /\ extraDisks \in ReconcileDisks
    /\ pc = [p \in Procs |-> "idle"]

(* --------------------------- reconcileQEMU ---------------------------- *)
\* the pass returns (vm, err)
Return(p, vm, err) ==
    /\ ret' = [ret EXCEPT ![p] = [vm |-> vm, err |-> err]]
    /\ pc' = [pc EXCEPT ![p] = "done"]

\* The outer loop invokes reconcileQEMU.  The identity record the pass starts
\* from is the persisted one, the one left in memory by the previous pass
\* (stale), or one whose VM ID was lost.
StartPass(p) ==
    /\ pc[p] \in {"idle", "done"}
    /\ \E rec \in {persisted, scope[p]}, lost \in BOOLEAN :
          scope' = [scope EXCEPT ![p] = IF lost THEN [rec EXCEPT !.vmid = None] ELSE rec]
    /\ pc' = [pc EXCEPT ![p] = "getQEMU"]
    /\ qemu' = [qemu EXCEPT ![p] = None]
    /\ vmoption' = [vmoption EXCEPT ![p] = ZeroOptions]
    /\ result' = [result EXCEPT ![p] = None]
    /\ imageStorageName' = [imageStorageName EXCEPT ![p] = ""]
    /\ calls' = [calls EXCEPT ![p] = <<>>]
    /\ ret' = [ret EXCEPT ![p] = NoRet]
    /\ UNCHANGED <<vms, persisted, extraDisks>>

\* a slip: a successful lookup does not skip the creation path
afterLookup_noShortcut(err) ==
    IF err = ErrNil \/ IsNotFound(err) THEN "exists" ELSE "done"

\* a slip: the `!rest.IsNotFound(err)` test is missing
afterLookup_anyErrCreates(err) ==
    IF err = ErrNil THEN "patch" ELSE "exists"

\* where reconcileQEMU goes on the error of getQEMU: nil skips the creation
\* path, not-found enters it, any other error returns
afterLookup(err) ==
    IF err = ErrNil THEN "patch"
    ELSE IF ~IsNotFound(err) THEN "done"
    ELSE "exists"

\* what s.client.VirtualMachine(ctx, vmid) may answer: [vm, err]
LookupAnswers(vmid) ==
    LET found == {v \in vms : v.vmid = vmid} IN
    {[vm |-> None, err |-> LookupErr]}
    \cup (IF found = {} THEN {[vm |-> None, err |-> NotFoundErr]}
          ELSE {[vm |-> Some(v), err |-> ErrNil] : v \in found})

\* getQEMU and the branch of reconcileQEMU on its error
GetQEMU(p) ==
    /\ pc[p] = "getQEMU"
    /\ \E a \in IF scope[p].vmid = None
                THEN {[vm |-> None, err |-> NotFoundErr]}
                ELSE LookupAnswers(scope[p].vmid[1]) :
         /\ calls' = [calls EXCEPT ![p] =
                         IF scope[p].vmid = None THEN @
                         ELSE Append(@, Call("lookup", a.err, None))]
         /\ qemu' = [qemu EXCEPT ![p] = a.vm]
         /\ IF afterLookup(a.err) = "done"
            THEN Return(p, None, a.err)
            ELSE /\ pc' = [pc EXCEPT ![p] = afterLookup(a.err)]
                 /\ UNCHANGED ret
    /\ UNCHANGED <<vms, persisted, extraDisks, scope, vmoption, result, imageStorageName>>

\* a slip: the guard forgets `exist`
stopCreating_errOnly(exist, err) == err # ErrNil

\* a slip: the guard forgets the error of the check
stopCreating_existOnly(exist, err) == exist

\* `exist || err != nil`
stopCreating(exist, err) == exist \/ err # ErrNil

\* a slip: the duplicate error also replaces the check's own error
guardError_alwaysDuplicate(exist, err) == DuplicateErr(Name)

\* a slip: the duplicate error is never built, the check's error is returned
guardError_propagate(exist, err) == err

\* `if exist { err = fmt.Errorf(...) }`: the error the guard returns
guardError(exist, err) == IF exist THEN DuplicateErr(Name) ELSE err

\* a variant: the check waits while another pass is between its own check
\* and its create, as a lock around check-and-create would make it
CheckExists_locked(p) ==
    /\ pc[p] = "exists"
    /\ \A q \in Procs \ {p} : pc[q] \notin {"schedule", "image", "create"}
    /\ \E exist \in BOOLEAN, err \in {ErrNil, ExistsErr} :
         /\ err = ErrNil => exist = ExistsWithName(Name)
         /\ calls' = [calls EXCEPT ![p] = Append(@, Call("exists", err, exist))]
         /\ IF stopCreating(exist, err)
            THEN Return(p, None, guardError(exist, err))
            ELSE /\ pc' = [pc EXCEPT ![p] = "schedule"]
                 /\ UNCHANGED ret
    /\ UNCHANGED <<vms, persisted, extraDisks, scope, locals>>

\* s.client.VirtualMachineExistsWithName and the duplicate guard
CheckExists(p) ==
    /\ pc[p] = "exists"
    /\ \E exist \in BOOLEAN, err \in {ErrNil, ExistsErr} :
         /\ err = ErrNil => exist = ExistsWithName(Name)
         /\ calls' = [calls EXCEPT ![p] = Append(@, Call("exists", err, exist))]
         /\ IF stopCreating(exist, err)
            THEN Return(p, None, guardError(exist, err))
            ELSE /\ pc' = [pc EXCEPT ![p] = "schedule"]
                 /\ UNCHANGED ret
    /\ UNCHANGED <<vms, persisted, extraDisks, scope, locals>>

(* ----------------------------- createQEMU ----------------------------- *)
\* a slip: s.scope.SetStorage(storage) is missing
Schedule_noSetStorage(p) ==
    /\ pc[p] = "schedule"
    /\ LET built == generateVMOptions(scope[p], extraDisks) IN
       /\ imageStorageName' = [imageStorageName EXCEPT ![p] = scope[p].storage]
       /\ \/ /\ calls' = [calls EXCEPT ![p] = Append(@, Call("schedule", SchedErr, None))]
             /\ vmoption' = [vmoption EXCEPT ![p] = built]
             /\ Return(p, None, SchedErr)
             /\ UNCHANGED <<scope, result>>
          \/ \E r \in Placements :
             /\ calls' = [calls EXCEPT ![p] = Append(@, Call("schedule", ErrNil, None))]
             /\ result' = [result EXCEPT ![p] = Some(r)]
             /\ scope' = [scope EXCEPT ![p] = Identity(Some(r.vmid), r.node, scope[p].storage)]
             /\ vmoption' = [vmoption EXCEPT ![p] = injectVMOption(built, r.storage, extraDisks).opt]
             /\ pc' = [pc EXCEPT ![p] = "image"]
             /\ UNCHANGED ret
    /\ UNCHANGED <<vms, persisted, extraDisks, qemu>>

\* generateVMOptions, s.scheduler.CreateQEMU, and on success the writes of
\* node, VM ID and storage to the scope and the storage injection
Schedule(p) ==
    /\ pc[p] = "schedule"
    /\ LET built == generateVMOptions(scope[p], extraDisks) IN
       /\ imageStorageName' = [imageStorageName EXCEPT ![p] = scope[p].storage]
       /\ \/ /\ calls' = [calls EXCEPT ![p] = Append(@, Call("schedule", SchedErr, None))]
             /\ vmoption' = [vmoption EXCEPT ![p] = built]
             /\ Return(p, None, SchedErr)
             /\ UNCHANGED <<scope, result>>
          \/ \E r \in Placements :
             /\ calls' = [calls EXCEPT ![p] = Append(@, Call("schedule", ErrNil, None))]
             /\ result' = [result EXCEPT ![p] = Some(r)]
             /\ scope' = [scope EXCEPT ![p] = Identity(Some(r.vmid), r.node, r.storage)]
             /\ vmoption' = [vmoption EXCEPT ![p] = injectVMOption(built, r.storage, extraDisks).opt]
             /\ pc' = [pc EXCEPT ![p] = "image"]
             /\ UNCHANGED ret
    /\ UNCHANGED <<vms, persisted, extraDisks, qemu>>

\* a slip: the error of setCloudImage is dropped and the create goes ahead
StageImage_ignoreErr(p) ==
    /\ pc[p] = "image"
    /\ \E err \in {ImageErr, ErrNil} :
          calls' = [calls EXCEPT ![p] = Append(@, Call("image", err, None))]
    /\ pc' = [pc EXCEPT ![p] = "create"]
    /\ UNCHANGED <<ret, vms, persisted, extraDisks, scope, locals>>

\* s.setCloudImage
StageImage(p) ==
    /\ pc[p] = "image"
    /\ \/ /\ calls' = [calls EXCEPT ![p] = Append(@, Call("image", ImageErr, None))]
          /\ Return(p, None, ImageErr)
       \/ /\ calls' = [calls EXCEPT ![p] = Append(@, Call("image", ErrNil, None))]
          /\ pc' = [pc EXCEPT ![p] = "create"]
          /\ UNCHANGED ret
    /\ UNCHANGED <<vms, persisted, extraDisks, scope, locals>>

\* s.client.CreateVirtualMachine(ctx, node, vmid, vmoption).  The platform
\* refuses a VM ID in use; it does not refuse a name in use.  A failed call
\* may or may not have left the VM behind.
CreateVM(p) ==
    /\ pc[p] = "create"
    /\ LET r == result[p][1]
           v == VM(r.vmid, vmoption[p].Name, r.node)
           free == \A w \in vms : w.vmid # r.vmid
           args == [node |-> r.node, vmid |-> r.vmid, req |-> vmoption[p]]
       IN
       \/ /\ calls' = [calls EXCEPT ![p] = Append(@, Call("create", CreateErr, args))]
          /\ \/ UNCHANGED vms
             \/ free /\ vms' = vms \cup {v}
          /\ Return(p, None, CreateErr)
          /\ UNCHANGED qemu
       \/ /\ free
          /\ calls' = [calls EXCEPT ![p] = Append(@, Call("create", ErrNil, args))]
          /\ vms' = vms \cup {v}
          /\ qemu' = [qemu EXCEPT ![p] = Some(v)]
          /\ pc' = [pc EXCEPT ![p] = "patch"]
          /\ UNCHANGED ret
    /\ UNCHANGED <<persisted, extraDisks, scope, vmoption, result, imageStorageName>>

(* --------------------- reconcileQEMU, lines 47-52 --------------------- *)
\* a slip: the error of PatchObject is swallowed
Patch_swallow(p) ==
    /\ pc[p] = "patch"
    /\ scope' = [scope EXCEPT ![p] = [@ EXCEPT !.vmid = Some(qemu[p][1].vmid),
                                               !.node = qemu[p][1].node]]
    /\ \/ /\ calls' = [calls EXCEPT ![p] = Append(@, Call("persist", PatchErr, None))]
          /\ Return(p, qemu[p], ErrNil)
          /\ UNCHANGED persisted
       \/ /\ calls' = [calls EXCEPT ![p] = Append(@, Call("persist", ErrNil, None))]
          /\ persisted' = scope'[p]
          /\ Return(p, qemu[p], ErrNil)
    /\ UNCHANGED <<vms, extraDisks, locals>>

\* SetVMID, SetNodeName, PatchObject and the return
Patch(p) ==
    /\ pc[p] = "patch"
    /\ scope' = [scope EXCEPT ![p] = [@ EXCEPT !.vmid = Some(qemu[p][1].vmid),
                                               !.node = qemu[p][1].node]]
    /\ \/ /\ calls' = [calls EXCEPT ![p] = Append(@, Call("persist", PatchErr, None))]
          /\ Return(p, None, PatchErr)
          /\ UNCHANGED persisted
       \/ /\ calls' = [calls EXCEPT ![p] = Append(@, Call("persist", ErrNil, None))]
          /\ persisted' = scope'[p]
          /\ Return(p, qemu[p], ErrNil)
    /\ UNCHANGED <<vms, extraDisks, locals>>

(* ---------------------------- environment ----------------------------- *)
\* a VM is removed from the platform by someone else
DeleteVM ==
    /\ \E v \in vms : vms' = vms \ {v}
    /\ UNCHANGED <<persisted, extraDisks, scope, pc, locals, calls, ret>>

(* ------------------ builder and injector on their own ----------------- *)
\* vmoption := s.generateVMOptions()
OptBuild(p) ==
    /\ pc[p] = "opt_build"
    /\ vmoption' = [vmoption EXCEPT ![p] = generateVMOptions(scope[p], extraDisks)]
    /\ imageStorageName' = [imageStorageName EXCEPT ![p] = scope[p].storage]
    /\ pc' = [pc EXCEPT ![p] = "opt_inject"]
    /\ UNCHANGED <<vms, persisted, extraDisks, scope, qemu, result, calls, ret>>

\* s.injectVMOption(&vmoption, storage) with the storage of a placement
OptInject(p) ==
    /\ pc[p] = "opt_inject"
    /\ \E r \in Placements :
         /\ result' = [result EXCEPT ![p] = Some(r)]
         /\ vmoption' = [vmoption EXCEPT ![p] =
                            injectVMOption(vmoption[p], r.storage, extraDisks).opt]
    /\ pc' = [pc EXCEPT ![p] = "opt_done"]
    /\ UNCHANGED <<vms, persisted, extraDisks, scope, qemu, imageStorageName, calls, ret>>

(* --------------------------- specifications --------------------------- *)
\* one pass at a time: the outer loop runs the passes of one instance in turn
Pass(p) ==
    \/ StartPass(p)
    \/ GetQEMU(p)
    \/ CheckExists(p)
    \/ Schedule(p)
    \/ StageImage(p)
    \/ CreateVM(p)
    \/ Patch(p)

Next ==
    \/ Pass(1)
    \/ DeleteVM

Spec == Init /\ [][Next]_vars

\* the builder and the injector applied to every extra-disk sequence
InitOpt ==
    /\ InitCommon
    /\ extraDisks \in SeqsUpTo(DiskSet, MaxDisks)
    /\ pc = [p \in Procs |-> "opt_build"]

NextOpt ==
    \/ OptBuild(1)
    \/ OptInject(1)

SpecOpt == InitOpt /\ [][NextOpt]_vars

(* ------------------ the injector on arbitrary requests ----------------- *)
\* a request whose storage-dependent fields and disk slots hold older values
StaleOptions ==
    [Name |-> Name, Node |-> "", VMID |-> None, Boot |-> BootFmt,
     CiCustom |-> CiCustomFmt(SnippetStorage, Name),
     Ide2 |-> Ide2Fmt("old"), Storage |-> "old",
     Scsi |-> [k \in 0..LastSlot |-> "old:" \o ToString(k) \o ",1G"]]

\* the requests the injector is applied to: the zero request, a stale one,
\* the builder's output for each storage, and requests already injected
InjectInputs(disks) ==
    LET built(st) == generateVMOptions(Identity(None, "", st), disks) IN
    {ZeroOptions, StaleOptions}
    \cup {built(st) : st \in Storages}
    \cup {injectVMOption(built(st), fs, disks).opt : st \in Storages, fs \in Storages}

\* s.injectVMOption applied once more, with the same storage
OptReinject(p) ==
    /\ pc[p] = "opt_done"
    /\ vmoption' = [vmoption EXCEPT ![p] =
                       injectVMOption(vmoption[p], result[p][1].storage, extraDisks).opt]
    /\ pc' = [pc EXCEPT ![p] = "opt_twice"]
    /\ UNCHANGED <<vms, persisted, extraDisks, scope, qemu, result, imageStorageName, calls, ret>>

InitInject ==
    /\ vms = {}
    /\ persisted = Identity(None, "", "images")
    /\ scope = [p \in Procs |-> persisted]
    /\ qemu = [p \in Procs |-> None]
    /\ result = [p \in Procs |-> None]
    /\ imageStorageName = [p \in Procs |-> ""]
    /\ calls = [p \in Procs |-> <<>>]
    /\ ret = [p \in Procs |-> NoRet]
    /\ extraDisks \in SeqsUpTo(DiskSet, MaxDisks)
    /\ \E r \in InjectInputs(extraDisks) :
          vmoption = [p \in Procs |-> IF p = 1 THEN r ELSE ZeroOptions]
    /\ pc = [p \in Procs |-> "opt_inject"]

NextInject ==
    \/ OptInject(1)
    \/ OptReinject(1)

SpecInject == InitInject /\ [][NextInject]_vars


(* ------------------------- overlapping passes -------------------------- *)
\* reconcileQEMU invoked once for the pass p
StartOnce(p) ==
    /\ pc[p] = "idle"
    /\ StartPass(p)

\* two invocations of reconcileQEMU for the same instance, their steps
\* interleaved: the caller's at-most-one-reconciliation guarantee is dropped
PassConc(p) ==
    \/ StartOnce(p)
    \/ GetQEMU(p)
    \/ CheckExists(p)
    \/ Schedule(p)
    \/ StageImage(p)
    \/ CreateVM(p)
    \/ Patch(p)

InitConc ==
    /\ InitCommon
    /\ extraDisks = CanonDisks(2)
    /\ pc = [p \in Procs |-> "idle"]

NextConc == \E p \in Procs : PassConc(p)

SpecConc == InitConc /\ [][NextConc]_vars

(* ------------------------- reading the call log ----------------------- *)
NumCalls(p) == Len(calls[p])
LastCall(p) == calls[p][Len(calls[p])]
CalledOp(p, op) == \E i \in 1..NumCalls(p) : calls[p][i].op = op
SucceededOp(p, op) == \E i \in 1..NumCalls(p) : calls[p][i].op = op /\ calls[p][i].err = ErrNil
NamedVMs == {v \in vms : v.name = Name}
\* the position of a collaborator in the order of the pass
Rank(op) ==
    CASE op = "lookup" -> 1 [] op = "exists" -> 2 [] op = "schedule" -> 3
      [] op = "image" -> 4 [] op = "create" -> 5 [] op = "persist" -> 6
\* a call that failed with a fatal error: any error but not-found of the lookup
Fatal(c) == c.err # ErrNil /\ ~(c.op = "lookup" /\ IsNotFound(c.err))

(* ------------------------------- claims ------------------------------- *)
\* C1: over non-overlapping passes of one instance, with any collaborator
\* failures and a lost or stale identity record, the platform never holds two
\* VMs with the instance's name, and a create call is issued only in a pass
\* whose name-existence check answered, without error, that no such VM exists.
C1_NoDuplicateVM ==
    /\ Cardinality(NamedVMs) <= 1
    /\ \A p \in Procs : \A i \in 1..NumCalls(p) :
          calls[p][i].op = "create" =>
             \E j \in 1..(i - 1) :
                /\ calls[p][j].op = "exists"
                /\ calls[p][j].err = ErrNil
                /\ calls[p][j].val = FALSE

\* a pass that starts from a record without VM ID while the VM exists on the
\* platform, and is stopped by the guard
C1_Witness ==
    /\ Cardinality(NamedVMs) = 1
    /\ pc[1] = "done"
    /\ scope[1].vmid = None
    /\ persisted.vmid = None
    /\ NumCalls(1) = 1
    /\ calls[1][1].op = "exists" /\ calls[1][1].val = TRUE

\* C2: a pass whose VM ID resolves in the lookup-by-ID never calls the
\* name-existence check, the scheduler, image staging or create; it ends after
\* the lookup and the persistence call, with VM ID and node of the record
\* taken from the live VM.
C2_ResolvedLookupIsNoOp ==
    \A p \in Procs :
       (NumCalls(p) >= 1 /\ calls[p][1].op = "lookup" /\ calls[p][1].err = ErrNil) =>
          /\ \A i \in 1..NumCalls(p) : calls[p][i].op \in {"lookup", "persist"}
          /\ vmoption[p] = ZeroOptions
          /\ result[p] = None
          /\ qemu[p] # None
          /\ pc[p] \in {"patch", "done"}
          /\ pc[p] = "done" =>
                /\ NumCalls(p) = 2
                /\ calls[p][2].op = "persist"
                /\ scope[p].vmid = Some(qemu[p][1].vmid)
                /\ scope[p].node = qemu[p][1].node
                /\ calls[p][2].err = ErrNil => (persisted = scope[p] /\ ret[p].vm = qemu[p])

\* a pass that found the instance's VM by its persisted VM ID and succeeded
C2_Witness ==
    /\ pc[1] = "done"
    /\ NumCalls(1) = 2
    /\ calls[1][1].op = "lookup" /\ calls[1][1].err = ErrNil
    /\ ret[1].err = ErrNil
    /\ Cardinality(NamedVMs) = 1

\* C3: a pass without a usable VM ID whose name-existence check finds a VM of
\* the desired name fails with the duplicate-instance error and calls neither
\* the scheduler, nor image staging, nor create.
C3_DuplicateStopsPass ==
    \A p \in Procs : \A i \in 1..NumCalls(p) :
       (calls[p][i].op = "exists" /\ calls[p][i].val = TRUE) =>
          /\ i = NumCalls(p)
          /\ pc[p] = "done"
          /\ ret[p] = [vm |-> None, err |-> DuplicateErr(Name)]
          /\ ~CalledOp(p, "schedule") /\ ~CalledOp(p, "image") /\ ~CalledOp(p, "create")
          /\ vmoption[p] = ZeroOptions

\* the lookup by a stale VM ID answered not-found and the check found the VM
C3_Witness ==
    /\ pc[1] = "done"
    /\ NumCalls(1) = 2
    /\ calls[1][1].op = "lookup" /\ calls[1][1].err = NotFoundErr
    /\ calls[1][2].op = "exists" /\ calls[1][2].val = TRUE /\ calls[1][2].err = ErrNil
    /\ ret[1].err = DuplicateErr(Name)

\* C4: within a pass the identity record (VM ID, node, storage) is written only
\* after a successful lookup-by-ID or a successful platform create.
C4_RecordWrittenOnlyAfterConfirmation ==
    [][\A p \in Procs :
          (pc[p] \notin {"idle", "done"} /\ scope'[p] # scope[p]) =>
             (SucceededOp(p, "lookup") \/ SucceededOp(p, "create"))']_vars

\* C5: within a pass the collaborators are called in the order lookup, exists,
\* schedule, image, create, persist, each at most once; a call that fails
\* fatally is the last call of the pass and the pass returns an error; create
\* is called only after the scheduler and image staging succeeded in the pass.
C5_OrderAndShortCircuit ==
    \A p \in Procs :
       /\ \A i, j \in 1..NumCalls(p) :
             i < j => Rank(calls[p][i].op) < Rank(calls[p][j].op)
       /\ \A i \in 1..NumCalls(p) :
             Fatal(calls[p][i]) =>
                /\ i = NumCalls(p)
                /\ pc[p] = "done"
                /\ ret[p].vm = None
                /\ ret[p].err # ErrNil
       /\ CalledOp(p, "create") => (SucceededOp(p, "schedule") /\ SucceededOp(p, "image"))

\* a pass that went through all six collaborators
C5_Witness ==
    /\ pc[1] = "done"
    /\ NumCalls(1) = 6
    /\ calls[1][1].op = "lookup"
    /\ calls[1][6].op = "persist"

\* C6: when identity persistence fails, the pass returns that error and no VM;
\* a pass that returns success ended with a successful persistence call.
C6_PersistFailureSurfaces ==
    \A p \in Procs :
       /\ \A i \in 1..NumCalls(p) :
             (calls[p][i].op = "persist" /\ calls[p][i].err # ErrNil) =>
                /\ pc[p] = "done"
                /\ ret[p] = [vm |-> None, err |-> calls[p][i].err]
       /\ (pc[p] = "done" /\ ret[p].err = ErrNil) =>
             /\ NumCalls(p) >= 1
             /\ LastCall(p).op = "persist" /\ LastCall(p).err = ErrNil
             /\ ret[p].vm # None

\* the VM was created and the persistence call failed
C6_Witness ==
    /\ pc[1] = "done"
    /\ SucceededOp(1, "create")
    /\ LastCall(1).op = "persist" /\ LastCall(1).err = PatchErr
    /\ persisted.vmid = None
    /\ Cardinality(NamedVMs) = 1

\* the two halves of C7: the lookup is the only call of the pass, which returns
\* its error; the step that makes the call leaves the identity record, the
\* persisted record and the platform unchanged
C7_Inv ==
    \A p \in Procs :
       (NumCalls(p) >= 1 /\ calls[p][1].op = "lookup"
          /\ calls[p][1].err # ErrNil /\ ~IsNotFound(calls[p][1].err)) =>
             /\ NumCalls(p) = 1
             /\ pc[p] = "done"
             /\ ret[p] = [vm |-> None, err |-> calls[p][1].err]
             /\ vmoption[p] = ZeroOptions /\ result[p] = None

C7_Step ==
    \A p \in Procs :
       (pc[p] = "getQEMU" /\ NumCalls(p)' = 1
          /\ calls'[p][1].err # ErrNil /\ ~IsNotFound(calls'[p][1].err)) =>
             /\ scope'[p] = scope[p]
             /\ persisted' = persisted
             /\ vms' = vms

\* C7: a lookup-by-ID error other than not-found ends the pass at once with
\* that error, no other collaborator called and no record changed.
C7_LookupErrorFailsFast == [](C7_Inv) /\ [][C7_Step]_vars

\* the lookup by a persisted VM ID failed
C7_Witness ==
    /\ pc[1] = "done"
    /\ NumCalls(1) = 1
    /\ calls[1][1].op = "lookup" /\ calls[1][1].err = LookupErr
    /\ persisted.vmid # None
    /\ scope[1] = persisted

\* C8 as stated: whenever the name-existence check reports a VM or returns an
\* error, the pass fails with the duplicate-instance error and does not create.
C8_AlwaysDuplicateError ==
    \A p \in Procs : \A i \in 1..NumCalls(p) :
       (calls[p][i].op = "exists" /\ (calls[p][i].val = TRUE \/ calls[p][i].err # ErrNil)) =>
          /\ i = NumCalls(p)
          /\ pc[p] = "done"
          /\ ret[p] = [vm |-> None, err |-> DuplicateErr(Name)]

\* C8 amended: whenever the name-existence check reports a VM or returns an
\* error, the pass fails and does not create; the error is the
\* duplicate-instance error when the check reported a VM, and the check's own
\* error otherwise.
C8_GuardStopsWithItsError ==
    \A p \in Procs : \A i \in 1..NumCalls(p) :
       (calls[p][i].op = "exists" /\ (calls[p][i].val = TRUE \/ calls[p][i].err # ErrNil)) =>
          /\ i = NumCalls(p)
          /\ pc[p] = "done"
          /\ ret[p].vm = None
          /\ ret[p].err = IF calls[p][i].val THEN DuplicateErr(Name) ELSE calls[p][i].err
          /\ ret[p].err # ErrNil
          /\ vmoption[p] = ZeroOptions

\* the check failed without reporting a VM
C8_Witness ==
    /\ pc[1] = "done"
    /\ LastCall(1).op = "exists"
    /\ LastCall(1).val = FALSE /\ LastCall(1).err = ExistsErr
    /\ ret[1].err = ExistsErr

\* C9: the request submitted to the platform create has root disk, cloud-init
\* disk and storage field derived from the placement's storage, is submitted
\* with the placement's node and VM ID, and none of the three fields holds
\* the value derived from a different provisional storage.
C9_SubmittedRequestUsesPlacement ==
    \A p \in Procs : \A i \in 1..NumCalls(p) :
       calls[p][i].op = "create" =>
          LET a == calls[p][i].val
              r == result[p][1]
              prov == imageStorageName[p]
          IN /\ a.req.Scsi[0] = Scsi0Fmt(r.storage, Image)
             /\ a.req.Ide2 = Ide2Fmt(r.storage)
             /\ a.req.Storage = r.storage
             /\ a.node = r.node
             /\ a.vmid = r.vmid
             /\ prov # r.storage =>
                   /\ a.req.Scsi[0] # Scsi0Fmt(prov, Image)
                   /\ a.req.Ide2 # Ide2Fmt(prov)
                   /\ a.req.Storage # prov

\* a create call whose placement storage differs from the provisional one
C9_Witness ==
    /\ CalledOp(1, "create")
    /\ imageStorageName[1] = "images"
    /\ result[1][1].storage = "fast-pool"
    /\ Len(extraDisks) >= BuilderTrim

\* C10: applying the injector to the request the builder produced leaves every
\* extra-disk slot 1..6 as the builder set it, the honored disks keyed to
\* their own pool; only root disk, cloud-init disk and storage field change.
C10_InjectKeepsExtraDisks ==
    [][(pc[1] = "opt_inject" /\ pc'[1] = "opt_done") =>
          LET before == vmoption[1]
              after == vmoption'[1]
              st == result'[1][1].storage
          IN /\ before = generateVMOptions(scope[1], extraDisks)
             /\ \A k \in 1..LastSlot : after.Scsi[k] = before.Scsi[k]
             /\ \A k \in 1..LastSlot :
                   k <= Len(extraDisks) => after.Scsi[k] = ExtraDiskFmt(extraDisks[k], k - 1)
             /\ after = [before EXCEPT !.Scsi[0] = Scsi0Fmt(st, Image),
                                       !.Ide2 = Ide2Fmt(st),
                                       !.Storage = st]]_vars

\* seven disks, the first on pool "local", injected with storage "fast-pool"
C10_Witness ==
    /\ pc[1] = "opt_done"
    /\ Len(extraDisks) > BuilderTrim
    /\ extraDisks[1].Storage = "local"
    /\ result[1][1].storage = "fast-pool"
    /\ vmoption[1].Scsi[LastSlot] # ""
    /\ vmoption[1].Scsi[0] = Scsi0Fmt("fast-pool", Image)


C13_SizeKeyedWireValue ==
    pc[1] \in {"opt_inject", "opt_done"} =>
       \A k \in 1..LastSlot :
          k <= Len(extraDisks) =>
             vmoption[1].Scsi[k] =
                extraDisks[k].Storage \o ":" \o ToString(k) \o ",size=" \o extraDisks[k].Size


\* C14: the injector is idempotent: applied a second time with the same
\* storage and the same extra disks, it leaves the request as the first
\* application made it.
C14_InjectIdempotent ==
    [][(pc[1] = "opt_done" /\ pc'[1] = "opt_twice") => vmoption'[1] = vmoption[1]]_vars

\* injected twice, on a stale request and more than five disks
C14_Witness ==
    /\ pc[1] = "opt_twice"
    /\ Len(extraDisks) > InjectLimit
    /\ vmoption[1].Scsi[1] = StaleOptions.Scsi[1]
    /\ vmoption[1].Storage = "fast-pool"

\* C15: whatever the request held and however many extra disks the spec
\* declares, after the injector the root-disk slot, the cloud-init slot and
\* the storage field are the values derived from the final storage.
C15_InjectOverwritesStorageFields ==
    pc[1] \in {"opt_done", "opt_twice"} =>
       LET st == result[1][1].storage IN
       /\ vmoption[1].Scsi[0] = Scsi0Fmt(st, Image)
       /\ vmoption[1].Ide2 = Ide2Fmt(st)
       /\ vmoption[1].Storage = st

\* a stale request with seven declared disks, injected once
C15_Witness ==
    /\ pc[1] = "opt_done"
    /\ Len(extraDisks) = MaxDisks
    /\ vmoption[1].Scsi[LastSlot] = StaleOptions.Scsi[LastSlot]
    /\ vmoption[1].Scsi[0] = Scsi0Fmt("fast-pool", Image)
    /\ vmoption[1].Ide2 = Ide2Fmt("fast-pool")

\* C16: whatever the extra-disk slots held, after the injector every honored
\* disk at position i (0..5) has slot i+1 derived from its own pool and size,
\* with the builder's slot rule and six-slot cap.
C16_InjectRederivesExtraDisks ==
    pc[1] = "opt_done" =>
       \A k \in 1..LastSlot :
          k <= Len(extraDisks) => vmoption[1].Scsi[k] = ExtraDiskFmt(extraDisks[k], k - 1)


\* C17: when a pass returns success, by the lookup path or the create path,
\* the record's VM ID and node are those of the returned VM, its storage is
\* the placement's storage if the VM was created in this pass, and the last
\* call of the pass was a successful persistence of that record.
C17_SuccessMeansPersistedIdentity ==
    \A p \in Procs :
       (pc[p] = "done" /\ ret[p].err = ErrNil) =>
          /\ ret[p].vm # None
          /\ ret[p].vm = qemu[p]
          /\ scope[p].vmid = Some(ret[p].vm[1].vmid)
          /\ scope[p].node = ret[p].vm[1].node
          /\ CalledOp(p, "create") => scope[p].storage = result[p][1].storage
          /\ LastCall(p).op = "persist" /\ LastCall(p).err = ErrNil
          /\ persisted = scope[p]

\* a pass that created the VM on a storage other than the provisional one and
\* returned success
C17_Witness ==
    /\ pc[1] = "done"
    /\ ret[1].err = ErrNil
    /\ SucceededOp(1, "create")
    /\ imageStorageName[1] # result[1][1].storage
    /\ persisted.storage = result[1][1].storage

\* C18: every mutation of the identity record made during a pass (the writes
\* of createQEMU after scheduling, the writes of reconcileQEMU after lookup or
\* create) is followed by a persistence call before the pass returns.
C18_MutationIsPersisted ==
    \A p \in Procs :
       (pc[p] = "done" /\ (result[p] # None \/ qemu[p] # None)) => CalledOp(p, "persist")


\* C19: the name-existence check and the platform create are separate steps
\* with no lock between them: whatever the other pass is doing, a pass at the
\* check can take it and go on to creation when no VM of the name exists, and
\* a pass at the create can create although a VM of the name exists by now.
C19_NoLockBetweenCheckAndCreate ==
    \A p \in Procs :
       /\ (pc[p] = "exists" /\ NamedVMs = {}) =>
             ENABLED (CheckExists(p) /\ pc'[p] = "schedule")
       /\ (pc[p] = "create" /\ \A v \in vms : v.vmid # result[p][1].vmid) =>
             ENABLED (CreateVM(p) /\ pc'[p] = "patch")

\* both passes saw no VM of the name and both created one
C19_Witness ==
    /\ Cardinality(NamedVMs) = 2
    /\ \A p \in Procs :
          /\ SucceededOp(p, "create")
          /\ \E i \in 1..NumCalls(p) :
                calls[p][i].op = "exists" /\ calls[p][i].val = FALSE /\ calls[p][i].err = ErrNil


\* the halves of C20: a pass that returned success without a lookup had a name
\* check that answered, without error, that no VM exists; a pass whose record
\* has no VM ID makes no lookup, and its name check, taken while a VM of the
\* name exists, ends the pass with an error, no VM result, and the platform,
\* the record and the persisted record unchanged
C20_Inv ==
    \A p \in Procs :
       (pc[p] = "done" /\ ret[p].err = ErrNil /\ calls[p][1].op = "exists") =>
          (calls[p][1].val = FALSE /\ calls[p][1].err = ErrNil)

C20_Step ==
    \A p \in Procs :
       /\ (pc[p] = "getQEMU" /\ scope[p].vmid = None /\ pc'[p] # pc[p]) =>
             /\ pc'[p] = "exists"
             /\ calls'[p] = calls[p]
             /\ scope'[p] = scope[p] /\ persisted' = persisted /\ vms' = vms
       /\ (pc[p] = "exists" /\ scope[p].vmid = None /\ NamedVMs # {} /\ pc'[p] # pc[p]) =>
             /\ pc'[p] = "done"
             /\ ret'[p].vm = None
             /\ ret'[p].err \in {DuplicateErr(Name), ExistsErr}
             /\ scope'[p] = scope[p] /\ persisted' = persisted /\ vms' = vms

\* C20: once the VM exists and the record has no VM ID, every pass that starts
\* from that record fails at the duplicate-name guard while the VM exists: it
\* creates no second VM, returns no success and does not record the VM's ID.
C20_StuckBehindGuard == [](C20_Inv) /\ [][C20_Step]_vars

\* the VM was created in an earlier pass, nothing was persisted, and the
\* present pass, started without VM ID, was stopped by the guard
C20_Witness ==
    /\ Cardinality(NamedVMs) = 1
    /\ persisted.vmid = None
    /\ pc[1] = "done"
    /\ calls[1] = <<Call("exists", ErrNil, TRUE)>>
    /\ ret[1] = [vm |-> None, err |-> DuplicateErr(Name)]
    /\ scope[1].vmid = None

====
